---- MODULE Spec2Model ----
(***************************************************************************)
(* Model of projc.c, a command-line C project scaffolder.                  *)
(*                                                                         *)
(* C strings are sequences of byte values (0..255), the terminating NUL    *)
(* left implicit.  The build modelled is the Windows one (lines 74-99):    *)
(* the Linux branch calls realpath() with three arguments and mkdir() with *)
(* one and uses struct stat without <sys/stat.h>, so it does not compile.  *)
(*                                                                         *)
(* The filesystem is a function from normalised paths to entries.  Its     *)
(* calls are deterministic functions of the filesystem state.              *)
(*                                                                         *)
(* Behaviour the C standard leaves open is a choice: the value of an       *)
(* uninitialised buffer is drawn from Garbage each time it is read; what   *)
(* one build does consistently (string literal pooling, fclose(NULL), a    *)
(* write past a stack buffer) is drawn once, in Init, as `build`.          *)
(***************************************************************************)
EXTENDS Integers, Sequences, FiniteSets, TLC

(* ---------------------------- bounds ---------------------------------- *)
MaxArgc == 3          \* argc ranges over 1..MaxArgc
JunkLen == 12         \* length of the longest uninitialised-buffer content

(* ------------------------ program constants --------------------------- *)
PATH_MAX == 260               \* #define PATH_MAX MAX_PATH
MAKE_CONTENTS_SIZE == 432     \* char make_contents[432]
sep == 92                     \* static const char sep = '\\'

(* ------------------------- string literals ---------------------------- *)
LIT_h == <<46,104>>  \* '.h'
LIT_c == <<46,99>>  \* '.c'
LIT_lib == <<108,105,98>>  \* 'lib'
LIT_src == <<115,114,99>>  \* 'src'
LIT_test == <<116,101,115,116>>  \* 'test'
LIT_include == <<105,110,99,108,117,100,101>>  \* 'include'
LIT_Makefile == <<77,97,107,101,102,105,108,101>>  \* 'Makefile'
LIT_Makefile_win == <<77,97,107,101,102,105,108,101,46,119,105,110>>  \* 'Makefile.win'
LIT_app == <<95,97,112,112>>  \* '_app'
LIT_test_sfx == <<95,116,101,115,116>>  \* '_test'
LIT_dot == <<46>>  \* '.'
HDR_1 == <<35,105,102,110,100,101,102,32>>  \* '#ifndef '
HDR_2 == <<95,72,10,35,100,101,102,105,110,101,32>>  \* '_H\n#define '
HDR_3 == <<95,72,10,47,42,32,67,111,100,101,32,103,111,101,115,32,104,101,114,101,32,42,47,10,10,35,101,110,100,105,102>>  \* '_H\n/* Code goes here */\n\n#endif'
SRC_1 == <<35,105,110,99,108,117,100,101,32,34>>  \* '#include "'
SRC_2 == <<46,104,34,10,10,47,42,32,67,111,100,101,32,103,111,101,115,32,104,101,114,101,32,42,47,10,10>>  \* '.h"\n\n/* Code goes here */\n\n'
GEN_1 == <<47,42,32,80,114,111,106,101,99,116,32>>  \* '/* Project '
GEN_2 == <<32,42,47>>  \* ' */'

\* "IDIR =./include\nCC=gcc\nCFLAGS=-I$(IDIR)\nODIR=obj\nLDIR =./lib\nLIBS=\n\n_DEPS = "
GCC_MAKE_MACROS ==
  <<73,68,73,82,32,61,46,47,105,110,99,108,117,100,101,10,67,67,61,103,99,99,10,67,70,76,65,71,83,61,45,73,36,40,73,68,73,82,41,10,79,68,73,82,61,111,98,106,10,76,68,73,82,32,61,46,47,108,105,98,10,76,73,66,83,61,10,10,95,68,69,80,83,32,61,32>>
\* ".h\nDEPS = $(patsubst %,$(IDIR)/%,$(_DEPS))\n\n_OBJ = "
GCC_MAKE_DEPS ==
  <<46,104,10,68,69,80,83,32,61,32,36,40,112,97,116,115,117,98,115,116,32,37,44,36,40,73,68,73,82,41,47,37,44,36,40,95,68,69,80,83,41,41,10,10,95,79,66,74,32,61,32>>
\* ".o "
GCC_MAKE_OBJ ==
  <<46,111,32>>
\* ".o\nOBJ = $(patsubst %,$(ODIR)/%,$(_OBJ))\n\n$(ODIR)/%.o: %.c $(DEPS)\n\t$(CC) -c -o $@ $< $(CFLAGS)\n\n"
GCC_MAKE_OBJ_BUILD ==
  <<46,111,10,79,66,74,32,61,32,36,40,112,97,116,115,117,98,115,116,32,37,44,36,40,79,68,73,82,41,47,37,44,36,40,95,79,66,74,41,41,10,10,36,40,79,68,73,82,41,47,37,46,111,58,32,37,46,99,32,36,40,68,69,80,83,41,10,9,36,40,67,67,41,32,45,99,32,45,111,32,36,64,32,36,60,32,36,40,67,70,76,65,71,83,41,10,10>>
\* ": $(OBJ)\n\tgcc -o $@ $^ $(CFLAGS) $(LIBS)\n\n.PHONY: clean\n\nclean:"
GCC_MAKE_PHONY ==
  <<58,32,36,40,79,66,74,41,10,9,103,99,99,32,45,111,32,36,64,32,36,94,32,36,40,67,70,76,65,71,83,41,32,36,40,76,73,66,83,41,10,10,46,80,72,79,78,89,58,32,99,108,101,97,110,10,10,99,108,101,97,110,58>>

(* --------------------------- sequences -------------------------------- *)
Pad(n) == [k \in 1..n |-> 97]

LastIndexOf(str, c) ==
  LET hits == {k \in 1..Len(str) : str[k] = c}
  IN IF hits = {} THEN 0 ELSE CHOOSE k \in hits : \A j \in hits : j <= k

Count(tok, str) ==
  Cardinality({k \in 1..(Len(str) - Len(tok) + 1) : SubSeq(str, k, k + Len(tok) - 1) = tok})

StartsWith(str, pre) == Len(str) >= Len(pre) /\ SubSeq(str, 1, Len(pre)) = pre

EndsWith(str, suf) ==
  Len(str) >= Len(suf) /\ SubSeq(str, Len(str) - Len(suf) + 1, Len(str)) = suf

\* The lines of a text: the maximal runs between '\n' bytes.
Lines(str) ==
  LET brk == {0, Len(str) + 1} \cup {k \in 1..Len(str) : str[k] = 10}
      adj == {x \in brk \X brk : x[1] < x[2] /\ \A k \in brk : ~(x[1] < k /\ k < x[2])}
  IN {SubSeq(str, x[1] + 1, x[2] - 1) : x \in adj}

\* Storing bytes into a buffer without a terminator: the bytes that were
\* in the buffer past the stored ones remain part of the C string.
Poke(buf, str) ==
  [k \in 1..(IF Len(buf) > Len(str) THEN Len(buf) ELSE Len(str)) |->
     IF k <= Len(str) THEN str[k] ELSE buf[k]]

(* ------------------- the filesystem (Windows CRT) --------------------- *)
\* A path names the entry found after collapsing repeated separators and
\* dropping a trailing one ("C:\\w\\" and "C:\w" are the same entry).
Norm(p) ==
  LET dropped == {k \in 1..Len(p) : p[k] = sep /\ (k = Len(p) \/ p[k + 1] = sep)}
      kept    == (1..Len(p)) \ dropped
      pos(k)  == k - Cardinality({m \in dropped : m < k})
  IN IF dropped = {} THEN p
     ELSE [j \in 1..Cardinality(kept) |-> p[CHOOSE k \in kept : pos(k) = j]]

Parent(p) == SubSeq(p, 1, LastIndexOf(p, sep) - 1)

\* The Windows calls refuse a name that does not fit MAX_PATH with its NUL.
PathOK(name) == Len(name) < PATH_MAX

\* _stat(name, &st) == 0
stat_ok(f, name) == PathOK(name) /\ Norm(name) \in DOMAIN f

CanCreate(f, name) ==
  /\ PathOK(name)
  /\ Parent(Norm(name)) \in DOMAIN f
  /\ f[Parent(Norm(name))].kind = "dir"

\* CreateDirectory(name, &sec) succeeded
CreateDirectoryOK(f, name) == CanCreate(f, name) /\ Norm(name) \notin DOMAIN f

mk_dir(f, name) ==
  IF ~stat_ok(f, name) /\ CreateDirectoryOK(f, name)
  THEN (Norm(name) :> [kind |-> "dir", content |-> <<>>]) @@ f
  ELSE f

\* mk_dir() was reached and its CreateDirectory() failed
mk_dir_failed(f, name) == ~stat_ok(f, name) /\ ~CreateDirectoryOK(f, name)

\* return (_stat(name, &st) + 1): nonzero iff the entry exists
exists(f, name) == stat_ok(f, name)

\* fopen(name, "w") != NULL
fopen_ok(f, name) ==
  /\ CanCreate(f, name)
  /\ (Norm(name) \in DOMAIN f => f[Norm(name)].kind = "file")

\* fopen(name, "w"); fprintf(fp, "%s", text); fclose(fp)
fwrite_file(f, name, text) ==
  (Norm(name) :> [kind |-> "file", content |-> text]) @@ f

\* _fullpath(dest, name, PATH_MAX): NULL (dest untouched) when the drive
\* does not exist or the result does not fit; "" and "." are the current
\* directory; a name with a drive is absolute; any other name is relative.
HasDrive(name) == Len(name) >= 2 /\ name[2] = 58

Join(dir, name) ==
  IF dir # <<>> /\ dir[Len(dir)] = sep THEN dir \o name ELSE dir \o <<sep>> \o name

FullPath(wd, name) ==
  IF name = <<>> \/ name = LIT_dot THEN wd
  ELSE IF HasDrive(name) THEN name
  ELSE Join(wd, name)

abspath(dest, name, wd) ==
  LET full == FullPath(wd, name)
      ok   == /\ (HasDrive(name) => name[1] = wd[1])
              /\ Len(full) < PATH_MAX
  IN [ret |-> IF ok THEN "dest" ELSE "NULL", dest |-> IF ok THEN full ELSE dest]

(* -------------------------- string helpers ---------------------------- *)
\* Zeroing bytes strt..ssize-1 ends the C string at offset strt.
strclr(str, strt, ssize) ==
  IF strt < ssize /\ strt < Len(str) THEN SubSeq(str, 1, strt) ELSE str

\* Copies what follows the last separator, terminator included; when no
\* separator is found only the local pointer is set to NULL and the
\* caller's buffer keeps what it held.
strslice(dest, str, spr) ==
  LET stop == LastIndexOf(str, spr)
  IN IF stop = 0 THEN dest ELSE SubSeq(str, stop + 1, Len(str))

\* (0x60 < c < 0x7b) is ((0x60 < c) < 0x7b): 0 or 1 compared with 0x7b.
InLowerRange(c) == (IF 96 < c THEN 1 ELSE 0) < 123

\* dest[i] is stored for i < strlen(str) and no terminator is written.
strupper(dest, str) ==
  Poke(dest, [k \in 1..Len(str) |->
                IF InLowerRange(str[k]) THEN (str[k] + 224) % 256 ELSE str[k]])

(* ------------------------------ inputs -------------------------------- *)
\* The bytes of the Makefile text that do not come from the project name.
FragmentsLen ==
  Len(GCC_MAKE_MACROS) + Len(GCC_MAKE_DEPS) + Len(GCC_MAKE_OBJ) + Len(LIT_test_sfx)
    + Len(GCC_MAKE_OBJ_BUILD) + Len(LIT_app) + Len(GCC_MAKE_PHONY)

DriveC == <<67,58>>  \* 'C:'
DirRootC == <<67,58,92>>  \* 'C:\'
DirW == <<67,58,92,119>>  \* 'C:\w'
NameDemo == <<100,101,109,111>>  \* 'demo'
NameMyProj1 == <<109,121,95,112,114,111,106,49>>  \* 'my_proj1'
NameFooBar == <<102,111,111,92,98,97,114>>  \* 'foo\bar'
NameFoo == <<102,111,111>>  \* 'foo'
NameOtherDrive == <<81,58,92,120>>  \* 'Q:\x', a drive that does not exist
NameNoDir == <<110,111,100,105,114>>  \* 'nodir', a directory that does not exist
UserText == <<47,42,32,109,105,110,101,32,42,47>>  \* '/* mine */'
Junk == <<120>>  \* 'x'
\* The shortest name with which the Makefile text overruns make_contents.
NameLong == Pad((MAKE_CONTENTS_SIZE - FragmentsLen) \div 4 + 1)
JunkLong == [k \in 1..JunkLen |-> 120]

\* A directory whose path leaves 15 bytes of PATH_MAX.
LongDir == DirRootC \o Pad(PATH_MAX - 18)

\* What an uninitialised char array may hold, as a C string.
Garbage == {<<>>, Junk, JunkLong, DirW}

Argv1Set == {NameDemo, NameMyProj1, NameFooBar, <<>>, NameOtherDrive, NameNoDir, NameLong}

CwdSet == {DirW, DirRootC, LongDir}

Dir == [kind |-> "dir", content |-> <<>>]

File(text) == [kind |-> "file", content |-> text]

BaseDirs ==
  {DriveC, DirW, Join(DirW, NameDemo), Join(DirW, NameMyProj1), Join(DirW, NameFoo),
   Join(DirW, NameFooBar), Join(DirW, NameLong), Join(DriveC, NameDemo), LongDir, Join(LongDir, NameDemo)}

FsClean == [p \in BaseDirs |-> Dir]

\* The root C:\w\demo already holds a header and a Makefile of the user's.
FsUser ==
  (Join(Join(DirW, NameDemo), LIT_lib) :> Dir)
  @@ (Join(Join(Join(DirW, NameDemo), LIT_lib), NameDemo \o LIT_h) :> File(UserText))
  @@ (Join(Join(DirW, NameDemo), LIT_Makefile) :> File(UserText))
  @@ FsClean

\* The root C:\w\demo holds a regular file named src.
FsSrcFile == (Join(Join(DirW, NameDemo), LIT_src) :> File(UserText)) @@ FsClean

InitialFS == {FsClean, FsUser, FsSrcFile}

Builds ==
  [pooling : BOOLEAN, fcloseNull : {"crash", "eof"},
   overrun : {"crash", "crash_early", "continue"}]

(* ------------------------------ state --------------------------------- *)
VARIABLES
  argc, argv1,   \* the command line
  cwd,           \* the current directory of the process
  build,         \* what this build does where the C standard leaves it open
  fs0,           \* the filesystem when the program starts
  fs,            \* the filesystem
  pc, i,         \* position in main and the loop index of the function it is in
  run,           \* 1: the invocation; 2: the same scaffolding run again
  status,        \* "running", "exit0", "exit1" or "crashed"
  resolved,      \* outcome of argument resolution
  dirname, project,  \* main's buffers
  tmp,           \* create_files' path buffer
  snap,          \* the filesystem when the current run started
  attempted,     \* steps (1..10) whose create_dir/touch/makefile_create call was made
  fmt,           \* what was formatted into each path buffer in the current run
  fsFailed,      \* a CreateDirectory or fopen call failed in the current run
  wrote          \* <<step, path>> of the entries the current run created

vars ==
  <<argc, argv1, cwd, build, fs0, fs, pc, i, run, status, resolved, dirname,
    project, tmp, snap, attempted, fmt, fsFailed, wrote>>

inputs == <<argc, argv1, cwd, build, fs0>>

Cap(buf) == IF buf = "make_contents" THEN MAKE_CONTENTS_SIZE ELSE PATH_MAX

\* The string and its terminator do not fit the buffer they were written to.
Overrun(r) == r.len + 1 > Cap(r.buf)

Fmt(buf, str) == [buf |-> buf, len |-> Len(str)]

(* ---------------------------- operations ------------------------------ *)
\* A string literal is its text and the place it is written at; whether two
\* equal literals share one address is up to the build.
Literal(str, site) == [str |-> str, site |-> site]

PtrEq(a, b) == a.str = b.str /\ (build.pooling \/ a.site = b.site)

RenderHeader(guard) == HDR_1 \o guard \o HDR_2 \o guard \o HDR_3

RenderSource(name) == SRC_1 \o name \o SRC_2

RenderGeneric(name) == GEN_1 \o name \o GEN_2

sprintf_make_contents_3(name) ==
  GCC_MAKE_MACROS \o name \o GCC_MAKE_DEPS \o name \o LIT_test_sfx
    \o GCC_MAKE_OBJ_BUILD \o name \o LIT_app \o GCC_MAKE_PHONY

\* "%s%s%s%s%s%s_test%s%s_app%s"
sprintf_make_contents(name) ==
  GCC_MAKE_MACROS \o name \o GCC_MAKE_DEPS \o name \o GCC_MAKE_OBJ \o name
    \o LIT_test_sfx \o GCC_MAKE_OBJ_BUILD \o name \o LIT_app \o GCC_MAKE_PHONY

Result(ret, f, fmts, nullClose, fsFail, made) ==
  [ret |-> ret, fs |-> f, fmt |-> fmts, nullClose |-> nullClose,
   fsFail |-> fsFail, wrote |-> made]

makefile_create(f, makename, proj, dirn) ==
  LET make     == dirn \o <<sep>> \o makename
      contents == sprintf_make_contents(proj)
      \* the overrun of make_contents may end the process before fprintf
      printed  == IF Overrun(Fmt("make_contents", contents)) /\ build.overrun = "crash_early"
                  THEN <<>> ELSE contents
  IN IF ~exists(f, make)
     THEN IF ~fopen_ok(f, make)
          THEN Result(0, f, {Fmt("make", make)}, TRUE, TRUE, {})
          ELSE Result(1, fwrite_file(f, make, printed),
                      {Fmt("make", make), Fmt("make_contents", contents)},
                      FALSE, FALSE, {Norm(make)})
     ELSE Result(0, f, {Fmt("make", make)}, FALSE, FALSE, {})

\* unFull, unTmp: what the uninitialised fullpath and tmp arrays hold.
touch(f, path, proj, ext, unFull, unTmp) ==
  LET tooLong  == Len(path) + Len(proj) + Len(ext.str) > PATH_MAX
      fullpath == IF tooLong THEN unFull ELSE path \o <<sep>> \o proj \o ext.str
      fmts     == IF tooLong THEN {} ELSE {Fmt("fullpath", fullpath)}
      text     == IF PtrEq(ext, Literal(LIT_h, "touch"))
                  THEN RenderHeader(strupper(unTmp, proj))
                  ELSE IF PtrEq(ext, Literal(LIT_c, "touch"))
                  THEN RenderSource(proj)
                  ELSE RenderGeneric(proj)
  IN IF ~exists(f, fullpath) /\ ~tooLong
     THEN IF ~fopen_ok(f, fullpath)
          THEN Result(0, f, fmts, TRUE, TRUE, {})
          ELSE Result(1, fwrite_file(f, fullpath, text), fmts, FALSE, FALSE,
                      {Norm(fullpath)})
     ELSE Result(0, f, fmts, FALSE, FALSE, {})

create_dir(f, dirn, destname) ==
  IF Len(dirn) + Len(destname) > PATH_MAX
  THEN Result(0, f, {}, FALSE, FALSE, {})
  ELSE LET destdir == dirn \o <<sep>> \o destname
       IN IF ~exists(f, destdir)
          THEN Result(1, mk_dir(f, destdir), {Fmt("destdir", destdir)}, FALSE,
                      mk_dir_failed(f, destdir),
                      IF mk_dir_failed(f, destdir) THEN {} ELSE {Norm(destdir)})
          ELSE Result(0, f, {Fmt("destdir", destdir)}, FALSE, FALSE, {})

\* fclose(NULL), or a write past the end of a stack buffer, ends the
\* process in the builds where it is fatal: when the function that holds
\* the buffer returns ("crash") or as soon as the buffer is overrun
\* ("crash_early").
Crashes(r) ==
  \/ r.nullClose /\ build.fcloseNull = "crash"
  \/ build.overrun # "continue" /\ \E x \in r.fmt : Overrun(x)

tree_dirs == <<LIT_lib, LIT_src, LIT_test, LIT_include>>

file_dirs == <<LIT_lib, LIT_src, LIT_test>>

file_ext == <<Literal(LIT_h, "create_files"), Literal(LIT_c, "create_files")>>

mks == <<LIT_Makefile, LIT_Makefile_win>>

\* The effect of one call r made as step n; `after` is where main goes when
\* the call returns.
Apply(n, r, afterPc, afterI, afterStatus) ==
  /\ fs' = r.fs
  /\ attempted' = attempted \cup {n}
  /\ fmt' = fmt \cup r.fmt
  /\ fsFailed' = (fsFailed \/ r.fsFail)
  /\ wrote' = wrote \cup {<<n, w>> : w \in r.wrote}
  /\ IF Crashes(r)
     THEN pc' = "done" /\ i' = 0 /\ status' = "crashed"
     ELSE pc' = afterPc /\ i' = afterI /\ status' = afterStatus

(* ------------------------------ actions ------------------------------- *)
Init ==
  /\ argc \in 1..MaxArgc
  /\ argv1 \in Argv1Set
  /\ cwd \in CwdSet
  /\ build \in Builds
  /\ fs0 \in InitialFS
  /\ fs = fs0
  /\ snap = fs0
  /\ pc = "main"
  /\ i = 0
  /\ run = 1
  /\ status = "running"
  /\ resolved = "none"
  /\ dirname = <<>>
  /\ project = <<>>
  /\ tmp = <<>>
  /\ attempted = {}
  /\ fmt = {}
  /\ fsFailed = FALSE
  /\ wrote = {}

ArgModeAtLeastTwo(n) == IF n >= 2 THEN "path" ELSE IF n = 1 THEN "cwd" ELSE "error"

\* if (argc == 2) ... else if (argc == 1) ... else goto ERRORQUIT
ArgMode(n) == IF n = 2 THEN "path" ELSE IF n = 1 THEN "cwd" ELSE "error"

\* if (dirname == NULL): dirname is an array, its address is never NULL
dirname_is_null == FALSE

\* unDir, unProj: what the uninitialised dirname and project arrays hold.
main ==
  /\ pc = "main"
  /\ UNCHANGED <<inputs, fs, i, run, tmp, snap, attempted, fsFailed, wrote>>
  /\ \E unDir \in Garbage, unProj \in Garbage :
       LET mode == ArgMode(argc)
           name == IF mode = "path" THEN argv1 ELSE Poke(unDir, LIT_dot)
           r    == abspath(IF mode = "path" THEN unDir ELSE name, name, cwd)
       IN IF mode = "error" \/ (mode = "path" /\ dirname_is_null)
          THEN /\ pc' = "done"
               /\ status' = "exit1"
               /\ resolved' = IF mode = "error" THEN "bad_argc" ELSE "abspath_failed"
               /\ fmt' = IF mode = "error" THEN fmt ELSE {Fmt("project", argv1)}
               /\ UNCHANGED <<dirname, project>>
          ELSE /\ pc' = "create_tree"
               /\ status' = "running"
               /\ resolved' = IF r.ret = "NULL" THEN "abspath_failed" ELSE "ok"
               /\ dirname' = r.dest
               /\ project' = IF mode = "path" THEN argv1
                             ELSE strslice(unProj, r.dest, sep)
               /\ fmt' = IF mode = "path" THEN {Fmt("project", argv1)} ELSE fmt

\* one iteration of the loop of create_tree
create_tree ==
  /\ pc = "create_tree"
  /\ Apply(i + 1, create_dir(fs, dirname, tree_dirs[i + 1]),
           IF i = 3 THEN "create_files" ELSE "create_tree",
           IF i = 3 THEN 0 ELSE i + 1, "running")
  /\ UNCHANGED <<inputs, run, resolved, dirname, project, tmp, snap>>

\* i = 0: the header, before the loop; i = 1..3: iteration i - 1 of the loop
create_files ==
  /\ pc = "create_files"
  /\ \E unFull \in Garbage, unTmp \in Garbage :
       LET path == IF i = 0 THEN dirname \o <<sep>> \o file_dirs[1]
                   ELSE strclr(tmp, Len(dirname) + 1, Len(tmp)) \o file_dirs[i]
           tmp2 == project \o (IF i = 2 THEN LIT_app ELSE LIT_test_sfx)
           name == IF i \in {2, 3} THEN tmp2 ELSE project
           ext  == IF i = 0 THEN file_ext[1] ELSE file_ext[2]
           r    == touch(fs, path, name, ext, unFull, unTmp)
           bufs == {Fmt("tmp", path)} \cup
                   (IF i \in {2, 3} THEN {Fmt("tmp2", tmp2)} ELSE {})
       IN /\ tmp' = path
          /\ Apply(5 + i, [r EXCEPT !.fmt = @ \cup bufs],
                   IF i = 3 THEN "create_makes" ELSE "create_files",
                   IF i = 3 THEN 0 ELSE i + 1, "running")
  /\ UNCHANGED <<inputs, run, resolved, dirname, project, snap>>

\* one iteration of the loop of create_makes; main returns 0 after the last
create_makes ==
  /\ pc = "create_makes"
  /\ Apply(9 + i, makefile_create(fs, mks[i + 1], project, dirname),
           IF i = 1 THEN "done" ELSE "create_makes",
           IF i = 1 THEN 0 ELSE i + 1,
           IF i = 1 THEN "exit0" ELSE "running")
  /\ UNCHANGED <<inputs, run, resolved, dirname, project, tmp, snap>>

\* The scaffolding is run a second time on the same root and project name.
RunAgain ==
  /\ pc = "done"
  /\ run = 1
  /\ resolved # "bad_argc"
  /\ run' = 2
  /\ pc' = "create_tree"
  /\ i' = 0
  /\ status' = "running"
  /\ snap' = fs
  /\ attempted' = {}
  /\ fmt' = {}
  /\ fsFailed' = FALSE
  /\ wrote' = {}
  /\ UNCHANGED <<inputs, fs, resolved, dirname, project, tmp>>

Next == main \/ create_tree \/ create_files \/ create_makes \/ RunAgain

Spec == Init /\ [][Next]_vars

(* ------------------------------ claims -------------------------------- *)
AllSteps == 1..10

At(a, b) == Norm(dirname \o <<sep>> \o a \o <<sep>> \o b)

AtRoot(a) == Norm(dirname \o <<sep>> \o a)

IsFile(p) == p \in DOMAIN fs /\ fs[p].kind = "file"

IsDir(p) == p \in DOMAIN fs /\ fs[p].kind = "dir"

Under(p, d) == StartsWith(p, d \o <<sep>>)

\* C1: once the scaffolding has run, running it again on the same root and
\* project name leaves every directory and file, with its content, as it
\* was: at every point of the second run the filesystem equals the one the
\* first run left.
C1_Idempotent == run = 2 => fs = snap

C1_Witness ==
  /\ run = 2 /\ pc = "done" /\ attempted = AllSteps
  /\ snap # fs0
  /\ \E p \in DOMAIN fs0 : fs0[p].kind = "file" /\ Under(p, Norm(dirname))

\* C2: after a run on an empty root in which no filesystem call failed,
\* lib/p.h, src/p.c, src/p_app.c, test/p_test.c, Makefile and Makefile.win
\* exist with content and include/ exists and is empty.
C2_FullLayout ==
  ( /\ pc = "done" /\ run = 1 /\ status = "exit0" /\ resolved = "ok"
    /\ ~fsFailed
    /\ Norm(dirname) \in DOMAIN fs0
    /\ \A p \in DOMAIN fs0 : ~Under(p, Norm(dirname)) )
  => /\ \A p \in {At(LIT_lib, project \o LIT_h), At(LIT_src, project \o LIT_c),
                  At(LIT_src, project \o LIT_app \o LIT_c),
                  At(LIT_test, project \o LIT_test_sfx \o LIT_c),
                  AtRoot(LIT_Makefile), AtRoot(LIT_Makefile_win)} :
          IsFile(p) /\ fs[p].content # <<>>
     /\ IsDir(AtRoot(LIT_include))
     /\ \A p \in DOMAIN fs : ~Under(p, AtRoot(LIT_include))

\* C3: started with two or more positional arguments (argc >= 3) the
\* program exits with status 1, no step of create_tree, create_files or
\* create_makes is made and the filesystem stays as it was.
C3_TooManyArguments ==
  argc >= 3 => /\ fs = fs0
               /\ attempted = {}
               /\ pc \in {"main", "done"}
               /\ (pc = "done" => status = "exit1")

C3_Witness == argc >= 3 /\ pc = "done" /\ status = "exit1"

\* C4: with one positional argument whose path cannot be canonicalised the
\* run ends with exit status 1 before any directory or file is created.
C4_AbspathFailureAborts ==
  (argc = 2 /\ resolved = "abspath_failed")
  => /\ pc = "done" /\ status = "exit1"
     /\ attempted = {}
     /\ fs = fs0

\* C5: a run that passed argument resolution ends with exit code 0 and has
\* attempted every step, whatever steps failed.
C5_BestEffort ==
  (pc = "done" /\ resolved = "ok") => status = "exit0" /\ attempted = AllSteps

\* C6: the project name create_files and create_makes are called with is
\* not empty and holds no path separator.
C6_ProjectNameValid ==
  (resolved = "ok" /\ pc \in {"create_files", "create_makes"})
  => project # <<>> /\ \A k \in 1..Len(project) : project[k] # sep

IsNameChar(c) ==
  \/ 97 <= c /\ c <= 122
  \/ 65 <= c /\ c <= 90
  \/ 48 <= c /\ c <= 57
  \/ c = 95

ValidName(p) == p # <<>> /\ \A k \in 1..Len(p) : IsNameChar(p[k])

UPPER(p) == [k \in 1..Len(p) |-> IF 97 <= p[k] /\ p[k] <= 122 THEN p[k] - 32 ELSE p[k]]

TOK_H == <<95,72>>  \* '_H'

\* C7: the header written for a valid name p holds the token UPPER(p)_H
\* exactly twice.
C7_HeaderGuardTwice ==
  \A w \in wrote :
    (w[1] = 5 /\ ValidName(project))
    => Count(UPPER(project) \o TOK_H, fs[w[2]].content) = 2

TOK_OBJ == <<95,79,66,74,32,61,32>>  \* '_OBJ = '
TOK_DEPS == <<95,68,69,80,83,32,61,32>>  \* '_DEPS = '
TOK_target == <<58,32,36,40,79,66,74,41>>  \* ': $(OBJ)'
TOK_dot_o == <<46,111>>  \* '.o'
TOK_space == <<32>>  \* ' '

MakefilesWritten ==
  {w \in wrote : w[1] \in {9, 10} /\ \A x \in fmt : x.buf = "make_contents" => ~Overrun(x)}

LinesFrom(text, pre) == {l \in Lines(text) : StartsWith(l, pre)}

LinesTo(text, suf) == {l \in Lines(text) : EndsWith(l, suf)}

\* C8 (as claimed): the Makefile text holds p at exactly three points, the
\* object list is p_test.o alone, the dependency list p.h, the target p_app.
C8_ThreePoints ==
  \A w \in MakefilesWritten :
    LET text == fs[w[2]].content
    IN /\ Len(text) = FragmentsLen - Len(GCC_MAKE_OBJ) + 3 * Len(project)
       /\ LinesFrom(text, TOK_OBJ) = {TOK_OBJ \o project \o LIT_test_sfx \o TOK_dot_o}
       /\ LinesFrom(text, TOK_DEPS) = {TOK_DEPS \o project \o LIT_h}
       /\ LinesTo(text, TOK_target) = {project \o LIT_app \o TOK_target}

\* C8 (amended): the Makefile text holds p at exactly four points, the
\* object list is "p.o p_test.o", the dependency list p.h, the target p_app.
C8_FourPoints ==
  \A w \in MakefilesWritten :
    LET text == fs[w[2]].content
    IN /\ Len(text) = FragmentsLen + 4 * Len(project)
       /\ LinesFrom(text, TOK_OBJ) =
            {TOK_OBJ \o project \o TOK_dot_o \o TOK_space \o project \o LIT_test_sfx \o TOK_dot_o}
       /\ LinesFrom(text, TOK_DEPS) = {TOK_DEPS \o project \o LIT_h}
       /\ LinesTo(text, TOK_target) = {project \o LIT_app \o TOK_target}

C8_Witness ==
  /\ project = NameDemo
  /\ \E w \in MakefilesWritten : w[1] = 9
  /\ \E w \in MakefilesWritten : w[1] = 10

TOK_include == <<35,105,110,99,108,117,100,101>>  \* '#include'

IncludesHeader(text) == Count(SRC_1 \o project \o SRC_2, text) = 1

\* C9: p_test.c is written in test with no #include line; p.c and p_app.c
\* are written in src and include the header p.h.
C9_ContentKinds ==
  \A w \in wrote :
    /\ w[1] = 8 => /\ w[2] = At(LIT_test, project \o LIT_test_sfx \o LIT_c)
                   /\ Count(TOK_include, fs[w[2]].content) = 0
    /\ w[1] = 7 => /\ w[2] = At(LIT_src, project \o LIT_app \o LIT_c)
                   /\ IncludesHeader(fs[w[2]].content)
    /\ w[1] = 6 => /\ w[2] = At(LIT_src, project \o LIT_c)
                   /\ IncludesHeader(fs[w[2]].content)

\* C10: no path that does not fit PATH_MAX bytes with its terminator is
\* formatted into the path buffer of create_dir, touch or makefile_create.
C10_PathFitsBuffer ==
  \A x \in fmt : x.buf \in {"destdir", "fullpath", "make"} => ~Overrun(x)

====
